---- MODULE Spec2Model ----
(***************************************************************************)
(* A model of the nctalk client library (src/nctalk): the query gateway,   *)
(* the capability cache of the client, and the Conversation / Chat /       *)
(* Message resource objects built on them.                                 *)
(*                                                                         *)
(* Python values are records [type |-> ..., val |-> ...]; a dict is a      *)
(* function from its keys, a str a sequence of tokens (its text is their   *)
(* concatenation), None the value of type "NoneType".  An operation that   *)
(* raises is an outcome whose exc field names the exception class.         *)
(***************************************************************************)
EXTENDS Integers, Sequences, FiniteSets, TLC

VARIABLES
    server,            \* the remote service: what it advertises on discovery
    capabilities,      \* NextCloudTalk.__capabilities
    config,            \* NextCloudTalk.__config
    server_version,    \* NextCloudTalk.__server_version
    conversation_api,  \* NextCloudTalk.__conversation_api is set
    convs,             \* the Conversation objects the caller holds
    readReturned,      \* some cache accessor has returned a value
    deleted,           \* the tokens of the rooms the remote service has deleted
    lastOp             \* the last operation: its arguments, requests and outcome

vars == <<server, capabilities, config, server_version, conversation_api,
          convs, readReturned, deleted, lastOp>>

----------------------------------------------------------------------------
(* Bounds of the model *)

\* Conversation objects the caller keeps a reference to
MaxConvs == 1
\* elements of a many-element listing beyond the second
MaxExtra == 0

----------------------------------------------------------------------------
(* Python values *)

\* body with the value v named in it: v is computed once
Bind(v, body(_)) == body(v)

PyNone == [type |-> "NoneType", val |-> <<>>]
PyStr(text) == [type |-> "str", val |-> text]
PyList(elems) == [type |-> "list", val |-> elems]
PyDict(map) == [type |-> "dict", val |-> map]
EmptyDict == PyDict(<<>>)

\* bool(v): None, '', [] and {} are false
Truthy(v) ==
    CASE v.type = "NoneType" -> FALSE
      [] v.type = "str" -> Len(v.val) > 0
      [] v.type = "list" -> Len(v.val) > 0
      [] v.type = "dict" -> DOMAIN v.val # {}
      [] OTHER -> TRUE

\* node[key] for a str key: a dict looks the key up, anything else cannot be
\* indexed by a str
Subscript(node, key) ==
    IF node.type = "dict"
    THEN IF key \in DOMAIN node.val
         THEN [exc |-> "none", val |-> node.val[key]]
         ELSE [exc |-> "KeyError", val |-> PyNone]
    ELSE [exc |-> "TypeError", val |-> PyNone]

\* node[path[1]][path[2]]..., left to right, stopping at the first exception
RECURSIVE Walk(_, _)
Walk(node, path) ==
    IF path = <<>>
    THEN [exc |-> "none", val |-> node]
    ELSE Bind(Subscript(node, Head(path)), LAMBDA step :
            IF step.exc # "none" THEN step ELSE Walk(step.val, Tail(path)))

\* `feature in container`: element equality on a list, substring on a str
\* (a str is the concatenation of its tokens, and no feature name is part of
\* another or straddles two tokens), key membership on a dict; None is not
\* iterable
PyIn(feature, container) ==
    CASE container.type = "list" ->
            [exc |-> "none",
             val |-> \E i \in 1..Len(container.val) :
                        container.val[i] = PyStr(<<feature>>)]
      [] container.type = "str" ->
            [exc |-> "none",
             val |-> \E i \in 1..Len(container.val) : container.val[i] = feature]
      [] container.type = "dict" ->
            [exc |-> "none", val |-> feature \in DOMAIN container.val]
      [] OTHER -> [exc |-> "TypeError", val |-> FALSE]

----------------------------------------------------------------------------
(* The remote service's capability discovery document *)

\* the feature names the library tests for
FeatureNames ==
    <<"conversation-v4", "chat-v2", "room-description", "read-only-rooms",
      "favorites", "notification-calls", "listable-rooms", "clear-history",
      "delete-messages", "rich-object-delete", "notification-levels",
      "rich-object-sharing", "chat-read-marker", "chat-unread">>

Names == {FeatureNames[i] : i \in DOMAIN FeatureNames}

\* the sequence s without the elements at the positions in drop
RECURSIVE Without(_, _)
Without(s, drop) ==
    IF s = <<>> THEN <<>>
    ELSE LET rest == Without(Tail(s), {i - 1 : i \in drop \ {1}})
         IN IF 1 \in drop THEN rest ELSE <<Head(s)>> \o rest

\* the list of str a sequence of names decodes to
RECURSIVE StrList(_)
StrList(names) ==
    IF names = <<>> THEN <<>>
    ELSE <<PyStr(<<Head(names)>>)>> \o StrList(Tail(names))

\* <features><element>..</element>..</features> with two or more elements
\* decodes to a list of str: every name, or every name but one of `lacking`
ListsLacking(lacking) ==
    {PyList(StrList(Without(FeatureNames, drop))) :
        drop \in {{}} \cup {{j} : j \in {k \in DOMAIN FeatureNames :
                                            FeatureNames[k] \in lacking}}}

FeatureLists == ListsLacking(Names)

\* a single <element> decodes to a lone str, not to a list of one
LoneFeatures ==
    {PyStr(<<"conversation-v4">>), PyStr(<<"x-", "conversation-v4">>),
     PyStr(<<"chat-v2">>), PyStr(<<"favorites">>),
     PyStr(<<"conversation-v4", "chat-v2">>),
     PyStr(FeatureNames)}

SpreedConfig == PyDict("attachments" :> PyDict("allowed" :> PyStr(<<"1">>)))
VersionString == PyStr(<<"25.0.1">>)

Defects ==
    {"none", "dataNull", "noSpreed", "spreedNull", "noFeatures", "featuresNull",
     "noConfig", "configNull", "noVersion", "versionNull", "versionEmpty"}

\* key :> node when the document has the key
Opt(present, key, node) == IF present THEN key :> node ELSE <<>>

\* the decoded discovery response: the expected nesting, less one defect
DiscoveryDoc(features, defect) ==
    LET featuresNode ==
            IF defect = "featuresNull" THEN PyNone
            ELSE PyDict("element" :> features)
        configNode == IF defect = "configNull" THEN PyNone ELSE SpreedConfig
        spreedNode ==
            IF defect = "spreedNull" THEN PyNone
            ELSE PyDict(Opt(defect # "noFeatures", "features", featuresNode)
                        @@ Opt(defect # "noConfig", "config", configNode))
        versionNode ==
            CASE defect = "versionNull" -> PyNone
              [] defect = "versionEmpty" -> PyDict("string" :> PyNone)
              [] OTHER -> PyDict("string" :> VersionString)
        dataNode ==
            IF defect = "dataNull" THEN PyNone
            ELSE PyDict("capabilities" :>
                            PyDict(Opt(defect # "noSpreed", "spreed", spreedNode))
                        @@ Opt(defect # "noVersion", "version", versionNode))
    IN PyDict("ocs" :> PyDict("data" :> dataNode))

FullList == PyList(StrList(FeatureNames))

\* the documents of a service whose list of features lacks at most one of
\* `lacking`, of a service with a single feature, and the defective ones
DocsLacking(lacking) ==
    {DiscoveryDoc(f, "none") : f \in ListsLacking(lacking) \cup LoneFeatures}
    \cup {DiscoveryDoc(FullList, d) : d \in Defects}

DiscoveryDocs == DocsLacking(Names)

----------------------------------------------------------------------------
(* The query gateway: NextCloudTalkAPI.query *)

ConversationEndpoint == "/ocs/v2.php/apps/spreed/api/v4"
ChatEndpoint == "/ocs/v2.php/apps/spreed/api/v1"

\* a request handed to client.session.request: the target is url then sub,
\* query and body hold the parameters when they are sent there
Request(method, url, sub, query, body, headers) ==
    [method |-> method, url |-> url, sub |-> sub, query |-> query,
     body |-> body, headers |-> headers]

\* every query() call sends this header
ApiMarker == {<<"OCS-APIRequest", "true">>}

\* a gateway that sends the parameters in the body whatever the method
QueryRequestBody(endpoint, data, sub, method, url) ==
    Request(method, IF url # "" THEN url ELSE endpoint, sub, <<>>, <<data>>,
            ApiMarker)

\* lines 46-57: GET puts the parameters in the query string, any other
\* method in the body; url overrides the endpoint
QueryRequest(endpoint, data, sub, method, url) ==
    IF method = "GET"
    THEN Request(method, IF url # "" THEN url ELSE endpoint, sub,
                 <<data>>, <<>>, ApiMarker)
    ELSE Request(method, IF url # "" THEN url ELSE endpoint, sub,
                 <<>>, <<data>>, ApiMarker)

\* dict.setdefault(key, default) on a dict value: the dict afterwards
SetDefault(d, key, default) ==
    IF key \in DOMAIN d.val THEN d ELSE PyDict(d.val @@ (key :> default))

\* a lookup that gives the empty str for a header the response left out
HeaderGetBlank(headers, header) ==
    IF header \in DOMAIN headers THEN PyStr(<<headers[header]>>) ELSE PyStr(<<>>)

\* response.headers.get(header, None)
HeaderGet(headers, header) ==
    IF header \in DOMAIN headers THEN PyStr(<<headers[header]>>) ELSE PyNone

\* lines 66-68: one setdefault per header to capture, in order
RECURSIVE CaptureHeaders(_, _, _)
CaptureHeaders(ret, include_headers, headers) ==
    IF include_headers = <<>> THEN ret
    ELSE Bind(SetDefault(ret, "response_headers", EmptyDict), LAMBDA outer :
            CaptureHeaders(
                PyDict(("response_headers" :>
                            SetDefault(outer.val["response_headers"],
                                       Head(include_headers),
                                       HeaderGet(headers, Head(include_headers))))
                       @@ outer.val),
                Tail(include_headers), headers))

\* a gateway that knows the generic kind alone
StatusExceptionGeneric(statuscode) == "NextCloudTalkException"

\* lines 72-86: the exception class raised for a statuscode
StatusException(statuscode) ==
    CASE statuscode = PyStr(<<"400">>) -> "NextCloudTalkBadRequest"
      [] statuscode = PyStr(<<"401">>) -> "NextCloudTalkUnauthorized"
      [] statuscode = PyStr(<<"403">>) -> "NextCloudTalkForbidden"
      [] statuscode = PyStr(<<"404">>) -> "NextCloudTalkNotFound"
      [] statuscode = PyStr(<<"409">>) -> "NextCloudTalkConflict"
      [] statuscode = PyStr(<<"412">>) -> "NextCloudTalkPreconditionFailed"
      [] OTHER -> "NextCloudTalkException"

\* lines 59-65: the payload of a response with a successful status.  The
\* handler of the KeyError concatenates a str and a dict, which raises
\* TypeError in place of the NextCloudTalkException it builds
QueryPayload(content, include_headers, headers) ==
    Bind(Walk(content, <<"ocs", "data">>), LAMBDA data :
    Bind(IF Truthy(data.val) THEN data.val ELSE EmptyDict, LAMBDA ret :
        CASE data.exc = "KeyError" -> [exc |-> "TypeError", ret |-> PyNone]
          [] data.exc # "none" -> [exc |-> data.exc, ret |-> PyNone]
          [] include_headers # <<>> /\ ret.type # "dict" ->
                [exc |-> "AttributeError", ret |-> PyNone]
          [] OTHER ->
                [exc |-> "none",
                 ret |-> CaptureHeaders(ret, include_headers, headers)]))

\* lines 70-86: the exception of a response with a failure status
QueryFailure(content) ==
    Bind(Walk(content, <<"ocs", "meta">>), LAMBDA meta :
        CASE meta.exc # "none" -> meta.exc
          [] meta.val.type # "dict" -> "TypeError"
          [] ~ ({"statuscode", "status", "message"} \subseteq DOMAIN meta.val.val) ->
                "KeyError"
          [] OTHER -> StatusException(meta.val.val["statuscode"]))

\* a gateway that sends the request again after a failure status
queryRetrying(endpoint, data, sub, method, url, include_headers, response) ==
    Bind(QueryRequest(endpoint, data, sub, method, url), LAMBDA request :
        IF response.ok
        THEN Bind(QueryPayload(response.content, include_headers, response.headers),
                  LAMBDA outcome : [reqs |-> <<request>>, exc |-> outcome.exc,
                                    ret |-> outcome.ret])
        ELSE [reqs |-> <<request, request>>,
              exc |-> QueryFailure(response.content), ret |-> PyNone])

\* query(data, sub, method, url, include_headers) answered by response:
\* the request it sends, and what it raises or returns
query(endpoint, data, sub, method, url, include_headers, response) ==
    Bind(IF response.ok
         THEN QueryPayload(response.content, include_headers, response.headers)
         ELSE [exc |-> QueryFailure(response.content), ret |-> PyNone],
         LAMBDA outcome :
            [reqs |-> <<QueryRequest(endpoint, data, sub, method, url)>>,
             exc |-> outcome.exc,
             ret |-> outcome.ret])

----------------------------------------------------------------------------
(* Responses of the remote service *)

\* <ocs><meta>..</meta><data>..</data></ocs>
Envelope(statuscode, data) ==
    PyDict("ocs" :> PyDict(
        "meta" :> PyDict("status" :> PyStr(<<"status">>)
                         @@ "statuscode" :> PyStr(<<statuscode>>)
                         @@ "message" :> PyStr(<<"message">>))
        @@ "data" :> data))

Response(ok, content, headers) ==
    [ok |-> ok, content |-> content, headers |-> headers]

NoHeaders == <<>>

\* the statuscodes a failing call of a resource method is answered with
FailureCodes == {"404", "500"}

Failures == {Response(FALSE, Envelope(c, PyNone), NoHeaders) : c \in FailureCodes}

\* a successful response carrying data
Success(data, headers) == Response(TRUE, Envelope("200", data), headers)

----------------------------------------------------------------------------
(* The capability cache of the client: NextCloudTalk in __init__.py *)

\* the three cached attributes, threaded through one operation
Cache == [capabilities |-> capabilities, config |-> config,
          server_version |-> server_version]

\* the class attributes of lines 54-56
UnsetCache == [capabilities |-> PyList(<<>>), config |-> EmptyDict,
               server_version |-> PyStr(<<>>)]

\* lines 120-123: session.request(method='GET', url=...), no headers given
DiscoveryRequest ==
    Request("GET", "", <<"ocs", "v1.php", "cloud", "capabilities">>,
            <<>>, <<>>, {})

FeaturesPath == <<"ocs", "data", "capabilities", "spreed", "features", "element">>
ConfigPath == <<"ocs", "data", "capabilities", "spreed", "config">>
VersionPath == <<"ocs", "data", "version", "string">>

\* lines 125-131: the handler catches TypeError alone
PopulateException(exc) ==
    IF exc = "TypeError" THEN "NextCloudTalkException" ELSE exc

\* one assignment of lines 126-128: self.<field> = data[path..], then the
\* statements after it
Assign(cc, field, data, path, rest(_)) ==
    Bind(Walk(data, path), LAMBDA w :
        IF w.exc # "none"
        THEN [exc |-> PopulateException(w.exc), cc |-> cc]
        ELSE rest([cc EXCEPT ![field] = w.val]))

\* __populate_caches answered by the document data: three assignments in
\* order, each kept when a later one raises
populate_caches(cc, data) ==
    Assign(cc, "capabilities", data, FeaturesPath, LAMBDA cc1 :
    Assign(cc1, "config", data, ConfigPath, LAMBDA cc2 :
    Assign(cc2, "server_version", data, VersionPath, LAMBDA cc3 :
        [exc |-> "none", cc |-> cc3])))

\* lines 133-152: a property populates when its attribute is false, then
\* returns the attribute
CacheProperty(cc, field, data) ==
    IF Truthy(cc[field])
    THEN [exc |-> "none", val |-> cc[field], cc |-> cc, reqs |-> <<>>]
    ELSE Bind(populate_caches(cc, data), LAMBDA p :
            [exc |-> p.exc, val |-> p.cc[field], cc |-> p.cc,
             reqs |-> <<DiscoveryRequest>>])

\* `feature in client.capabilities`
Capable(cc, feature, data) ==
    Bind(CacheProperty(cc, "capabilities", data), LAMBDA c :
        IF c.exc # "none"
        THEN [exc |-> c.exc, val |-> FALSE, cc |-> c.cc, reqs |-> c.reqs]
        ELSE Bind(PyIn(feature, c.val), LAMBDA m :
                [exc |-> m.exc, val |-> m.val, cc |-> c.cc, reqs |-> c.reqs]))

\* api.py lines 97-105 and 221-229: an API object needs its feature
ApiInit(cc, feature, failure, data) ==
    Bind(Capable(cc, feature, data), LAMBDA m :
        [exc |-> IF m.exc # "none" THEN m.exc
                 ELSE IF m.val THEN "none" ELSE failure,
         cc |-> m.cc, reqs |-> m.reqs])

ConversationAPI(cc, data) ==
    ApiInit(cc, "conversation-v4", "NextCloudTalkException", data)

ChatAPI(cc, data) ==
    ApiInit(cc, "chat-v2", "NextCloudTalkNotCapable", data)

\* __init__.py lines 154-159: the client builds its ConversationAPI once
ConversationApiProperty(cc, built, data) ==
    IF built
    THEN [exc |-> "none", cc |-> cc, reqs |-> <<>>, built |-> TRUE]
    ELSE Bind(ConversationAPI(cc, data), LAMBDA a :
            [exc |-> a.exc, cc |-> a.cc, reqs |-> a.reqs, built |-> a.exc = "none"])

----------------------------------------------------------------------------
(* Conversation objects *)

Tokens == <<"t1", "t2">>

\* a room as the service describes it
Room(i) == PyDict("token" :> PyStr(<<Tokens[((i - 1) % Len(Tokens)) + 1]>>)
                  @@ "description" :> PyStr(<<"old">>))

\* the first n rooms
RECURSIVE Rooms(_)
Rooms(n) == IF n = 0 THEN <<>> ELSE Rooms(n - 1) \o <<Room(n)>>

\* a Chat bound to no room
ChatUnbound(token) == [token |-> PyNone, headers |-> EmptyDict]

\* api.py lines 1040-1043
Chat(token) == [token |-> token, headers |-> EmptyDict]

\* api.py lines 238-246: the attributes come from data, then a ChatAPI and a
\* Chat on self.token are made
Conversation(data, cc, doc) ==
    IF data.type # "dict"
    THEN [exc |-> "TypeError", obj |-> <<>>, cc |-> cc, reqs |-> <<>>]
    ELSE Bind(ChatAPI(cc, doc), LAMBDA a :
            CASE a.exc # "none" ->
                    [exc |-> a.exc, obj |-> <<>>, cc |-> a.cc, reqs |-> a.reqs]
              [] "token" \notin DOMAIN data.val ->
                    [exc |-> "AttributeError", obj |-> <<>>, cc |-> a.cc,
                     reqs |-> a.reqs]
              [] OTHER ->
                    [exc |-> "none",
                     obj |-> <<[attrs |-> data.val,
                                chat |-> Chat(data.val["token"])]>>,
                     cc |-> a.cc, reqs |-> a.reqs])

\* [Conversation(x, self) for x in elements], stopping at the first that raises
RECURSIVE Conversations(_, _, _)
Conversations(elements, cc, doc) ==
    IF elements = <<>>
    THEN [exc |-> "none", obj |-> <<>>, cc |-> cc, reqs |-> <<>>]
    ELSE Bind(Conversation(Head(elements), cc, doc), LAMBDA first :
            IF first.exc # "none" THEN first
            ELSE Bind(Conversations(Tail(elements), first.cc, doc), LAMBDA rest :
                    [exc |-> rest.exc,
                     obj |-> IF rest.exc = "none" THEN first.obj \o rest.obj
                             ELSE <<>>,
                     cc |-> rest.cc, reqs |-> first.reqs \o rest.reqs]))

----------------------------------------------------------------------------
(* ConversationAPI: list, open_conversation_list, new, get *)

\* api.py lines 138-147 and 203-212: zero, one or many rooms
ListRooms(request, cc, doc) ==
    Bind(Subscript(request, "element"), LAMBDA element :
        CASE ~ Truthy(request) ->
                [exc |-> "none", obj |-> <<>>, cc |-> cc, reqs |-> <<>>]
          [] element.exc # "none" ->
                [exc |-> element.exc, obj |-> <<>>, cc |-> cc, reqs |-> <<>>]
          [] element.val.type = "dict" -> Conversations(<<element.val>>, cc, doc)
          [] element.val.type = "list" -> Conversations(element.val.val, cc, doc)
          [] OTHER ->
                [exc |-> "NextCloudTalkException", obj |-> <<>>, cc |-> cc,
                 reqs |-> <<>>])

\* the result of a call that queries once and makes objects from the payload
Built(q, make(_)) ==
    IF q.exc # "none"
    THEN [exc |-> q.exc, reqs |-> q.reqs, obj |-> <<>>]
    ELSE Bind(make(q.ret), LAMBDA made :
            [exc |-> made.exc, reqs |-> q.reqs \o made.reqs, obj |-> made.obj])

\* api.py lines 132-147
list(cc, status_update, include_status, response, doc) ==
    Built(query(ConversationEndpoint,
                [noStatusUpdate |-> IF status_update THEN 1 ELSE 0,
                 includeStatus |-> include_status],
                <<"room">>, "GET", "", <<>>, response),
          LAMBDA request : ListRooms(request, cc, doc))

\* api.py lines 199-212
open_conversation_list(cc, response, doc) ==
    Built(query(ConversationEndpoint, <<>>, <<"listed-room">>, "GET", "", <<>>,
                response),
          LAMBDA request : ListRooms(request, cc, doc))

\* the conversation types of nctalk.constants
ConversationType ==
    [one_to_one |-> 1, group |-> 2, public |-> 3, changelog |-> 4]

\* a new that sends the type as it is given and leaves it to the service
newUnvalidated(cc, room_type, invite, room_name, source, response, doc) ==
    Built(query(ConversationEndpoint,
                [roomType |-> room_type, invite |-> invite, source |-> source,
                 roomName |-> room_name],
                <<"room">>, "POST", "", <<>>, response),
          LAMBDA data : Conversation(data, cc, doc))

\* api.py lines 178-185: the type is looked up by name before the query
new(cc, room_type, invite, room_name, source, response, doc) ==
    IF room_type \notin DOMAIN ConversationType
    THEN [exc |-> "KeyError", reqs |-> <<>>, obj |-> <<>>]
    ELSE Built(query(ConversationEndpoint,
                     [roomType |-> ConversationType[room_type], invite |-> invite,
                      source |-> source, roomName |-> room_name],
                     <<"room">>, "POST", "", <<>>, response),
               LAMBDA data : Conversation(data, cc, doc))

\* api.py lines 196-197
get(cc, room_token, response, doc) ==
    Built(query(ConversationEndpoint, <<>>, <<"room", room_token>>, "GET", "",
                <<>>, response),
          LAMBDA data : Conversation(data, cc, doc))

\* what the service answers a listing call with
ListingData ==
    {PyNone,
     PyDict("element" :> PyNone),
     PyDict("element" :> PyStr(<<"text">>)),
     PyDict("total" :> PyStr(<<"0">>))}
    \cup {PyDict("element" :> Room(i)) : i \in 1..Len(Tokens)}
    \cup {PyDict("element" :> PyList(Rooms(n))) : n \in 2..(2 + MaxExtra)}

ListingResponses == Failures \cup {Success(d, NoHeaders) : d \in ListingData}

\* what the service answers a call for one room with
RoomResponses ==
    Failures \cup {Success(Room(i), NoHeaders) : i \in 1..Len(Tokens)}
    \cup {Success(PyNone, NoHeaders)}

----------------------------------------------------------------------------
(* Operations of the client *)

Min(a, b) == IF a < b THEN a ELSE b

\* the caller keeps the new objects it has room for
Adopt(objs) == convs \o SubSeq(objs, 1, Min(Len(objs), MaxConvs - Len(convs)))

\* the record of an operation: setup holds the requests sent while the
\* client built its API object, reqs those the operation itself sent
Op(name, args, resp, exc, setup, reqs, ret) ==
    [op |-> name, args |-> args, resp |-> resp, exc |-> exc, setup |-> setup,
     reqs |-> reqs, ret |-> ret]

\* the client after construction, facing a service that sends one of docs
InitWith(docs) ==
    /\ server \in docs
    /\ capabilities = UnsetCache.capabilities
    /\ config = UnsetCache.config
    /\ server_version = UnsetCache.server_version
    /\ conversation_api = FALSE
    /\ convs = <<>>
    /\ readReturned = FALSE
    /\ deleted = {}
    /\ lastOp = Op("init", <<>>, <<>>, "none", <<>>, <<>>, <<>>)

Init == InitWith(DiscoveryDocs)

SetCache(cc) ==
    /\ capabilities' = cc.capabilities
    /\ config' = cc.config
    /\ server_version' = cc.server_version

\* reading nct.capabilities, nct.config or nct.server_version
ReadCache(field) ==
    \E r \in {CacheProperty(Cache, field, server)} :
        /\ SetCache(r.cc)
        /\ readReturned' = (readReturned \/ r.exc = "none")
        /\ lastOp' = Op(field, [before |-> readReturned, cache |-> Cache], <<>>,
                        r.exc, <<>>,
                        r.reqs, IF r.exc = "none" THEN <<r.val>> ELSE <<>>)
        /\ UNCHANGED <<server, conversation_api, convs, deleted>>

read_capabilities == ReadCache("capabilities")
read_config == ReadCache("config")
read_server_version == ReadCache("server_version")

\* an operation that goes through nct.conversation_api first: call(cc) is
\* the ConversationAPI method on the cache the property leaves; the caller
\* keeps the Conversation objects it returns
ThroughApi(name, args, response, call(_), keep) ==
    \E a \in {ConversationApiProperty(Cache, conversation_api, server)} :
    \E r \in {IF a.exc = "none" THEN call(a.cc)
              ELSE [exc |-> a.exc, reqs |-> <<>>, obj |-> <<>>]} :
        /\ SetCache(a.cc)
        /\ conversation_api' = a.built
        /\ convs' = IF keep /\ r.exc = "none" THEN Adopt(r.obj) ELSE convs
        /\ lastOp' = Op(name, args, IF r.reqs = <<>> THEN <<>> ELSE <<response>>,
                        r.exc, a.reqs, r.reqs, r.obj)
        /\ UNCHANGED <<server, readReturned, deleted>>

\* __init__.py lines 85-92
conversation_list ==
    \E status_update \in BOOLEAN, response \in ListingResponses :
        LET call(cc) == list(cc, status_update, FALSE, response, server)
        IN ThroughApi("conversation_list", [status_update |-> status_update],
                      response, call, TRUE)

\* __init__.py lines 114-116
client_open_conversation_list ==
    \E response \in ListingResponses :
        LET call(cc) == open_conversation_list(cc, response, server)
        IN ThroughApi("open_conversation_list", <<>>, response, call, TRUE)

RoomTypes == {"one_to_one", "group", "public", "changelog", "party"}

\* __init__.py lines 94-105
conversation_create ==
    \E room_type \in RoomTypes, response \in RoomResponses :
        LET call(cc) == new(cc, room_type, "", "Test", "", response, server)
        IN ThroughApi("conversation_create",
                      [room_type |-> room_type, room_name |-> "Test"],
                      response, call, TRUE)

\* __init__.py lines 107-112
conversation_get ==
    \E i \in 1..Len(Tokens), response \in RoomResponses :
        LET call(cc) == get(cc, Tokens[i], response, server)
        IN ThroughApi("conversation_get", [room_token |-> Tokens[i]],
                      response, call, TRUE)

----------------------------------------------------------------------------
(* Methods of Conversation, Chat and Message: api.py lines 232-1507 *)

\* the text an f-string gives a value
Fmt(v) == IF v.type = "str" THEN v.val ELSE <<v.type>>

\* the parameters of a call: a dict, or the exception building it raises
Data(d) == [exc |-> "none", val |-> d]

\* Enum[name].value
Lookup(enum, name) ==
    IF name \in DOMAIN enum THEN enum[name] ELSE 0

\* {key: Enum[name].value}: KeyError when the enumeration has no such member
EnumData(key, enum, name) ==
    [exc |-> IF name \in DOMAIN enum THEN "none" ELSE "KeyError",
     val |-> key :> Lookup(enum, name)]

\* `if feature not in self.api.client.capabilities: raise NotCapable`, then
\* the parameters are built, then the query is sent
GatedQuery(cc, feature, endpoint, data, sub, method, include_headers, response, doc) ==
    Bind(Capable(cc, feature, doc), LAMBDA m :
        CASE m.exc # "none" ->
                [exc |-> m.exc, reqs |-> m.reqs, ret |-> PyNone, cc |-> m.cc]
          [] ~ m.val ->
                [exc |-> "NextCloudTalkNotCapable", reqs |-> m.reqs, ret |-> PyNone,
                 cc |-> m.cc]
          [] data.exc # "none" ->
                [exc |-> data.exc, reqs |-> m.reqs, ret |-> PyNone, cc |-> m.cc]
          [] OTHER ->
                Bind(query(endpoint, data.val, sub, method, "", include_headers,
                           response),
                     LAMBDA q : [exc |-> q.exc, reqs |-> m.reqs \o q.reqs,
                                 ret |-> q.ret, cc |-> m.cc]))

\* a query with no capability test before it
PlainQuery(cc, endpoint, data, sub, method, include_headers, response) ==
    Bind(query(endpoint, data, sub, method, "", include_headers, response),
         LAMBDA q : [exc |-> q.exc, reqs |-> q.reqs, ret |-> q.ret, cc |-> cc])

RoomPath(conv, tail) == <<"room">> \o Fmt(conv.attrs["token"]) \o tail

\* a rename that refuses locally a room the service has deleted
renameGuarded(conv, cc, room_name, response) ==
    IF conv.attrs["token"] \in deleted
    THEN [exc |-> "NextCloudTalkNotFound", reqs |-> <<>>, ret |-> PyNone, cc |-> cc]
    ELSE PlainQuery(cc, ConversationEndpoint, [roomName |-> room_name],
                    RoomPath(conv, <<>>), "PUT", <<>>, response)

\* lines 276-279
rename(conv, cc, room_name, response) ==
    PlainQuery(cc, ConversationEndpoint, [roomName |-> room_name],
               RoomPath(conv, <<>>), "PUT", <<>>, response)

\* lines 296-298: no attribute of the object is assigned
delete(conv, cc, response) ==
    PlainQuery(cc, ConversationEndpoint, <<>>, RoomPath(conv, <<>>), "DELETE",
               <<>>, response)

\* lines 321-329: the method returns the query's result, so the assignment
\* to self.description after the return statement never runs
set_description(conv, cc, description, response, doc) ==
    GatedQuery(cc, "room-description", ConversationEndpoint,
               Data([description |-> description]), RoomPath(conv, <<"description">>),
               "PUT", <<>>, response, doc)

\* lines 377-383
read_only(conv, cc, state, response, doc) ==
    GatedQuery(cc, "read-only-rooms", ConversationEndpoint, Data([state |-> state]),
               RoomPath(conv, <<"read-only">>), "PUT", <<>>, response, doc)

\* lines 420-425
add_to_favorites(conv, cc, response, doc) ==
    GatedQuery(cc, "favorites", ConversationEndpoint, Data(<<>>),
               RoomPath(conv, <<"favorite">>), "POST", <<>>, response, doc)

\* lines 441-446
remove_from_favorites(conv, cc, response, doc) ==
    GatedQuery(cc, "favorites", ConversationEndpoint, Data(<<>>),
               RoomPath(conv, <<"favorites">>), "DELETE", <<>>, response, doc)

\* the notification levels and listing scopes of nctalk.constants
NotificationLevel == [default |-> 0, always |-> 1, mention |-> 2, never |-> 3]
ListableScope == [none |-> 0, users |-> 1, everyone |-> 2]

\* lines 492-502: the level is looked up by name after the capability test
set_call_notification_level(conv, cc, notification_level, response, doc) ==
    GatedQuery(cc, "notification-calls", ConversationEndpoint,
               EnumData("level", NotificationLevel, notification_level),
               RoomPath(conv, <<"notify-calls">>), "POST", <<>>, response, doc)

\* lines 728-734
change_listing_scope(conv, cc, scope, response, doc) ==
    GatedQuery(cc, "listable-rooms", ConversationEndpoint,
               EnumData("scope", ListableScope, scope),
               RoomPath(conv, <<"listable">>), "PUT", <<>>, response, doc)

\* lines 465-471: the level is looked up by name, then the query is sent;
\* no capability is tested
set_notification_level(conv, cc, notification_level, response) ==
    Bind(EnumData("level", NotificationLevel, notification_level), LAMBDA data :
        IF data.exc # "none"
        THEN [exc |-> data.exc, reqs |-> <<>>, ret |-> PyNone, cc |-> cc]
        ELSE PlainQuery(cc, ConversationEndpoint, data.val,
                        RoomPath(conv, <<"notify">>), "POST", <<>>, response))

\* lines 637-639: query is called without a method, so with its default GET
invite(conv, cc, invitee, source, response) ==
    PlainQuery(cc, ConversationEndpoint,
               [newParticipant |-> invitee, source |-> source],
               RoomPath(conv, <<"participants">>), "GET", <<>>, response)

\* participants.py lines 5-15
Permissions ==
    [default |-> 0, custom |-> 1, start_call |-> 2, join_call |-> 4,
     can_ignore_lobby |-> 8, can_publish_audio |-> 16, can_publish_video |-> 32,
     can_publish_screen_sharing |-> 64]

\* permissions.value of the flags combined with |
RECURSIVE PermissionsValue(_)
PermissionsValue(flags) ==
    IF flags = {} THEN 0
    ELSE Bind(CHOOSE f \in flags : TRUE, LAMBDA f :
            Permissions[f] + PermissionsValue(flags \ {f}))

\* self.<name> of a Conversation: the attributes it got from its mapping
GetAttr(conv, name) ==
    IF name \in DOMAIN conv.attrs
    THEN [exc |-> "none", val |-> conv.attrs[name]]
    ELSE [exc |-> "AttributeError", val |-> PyNone]

\* lines 763-771: the path is made of self.room.token; a Conversation has
\* no room unless its mapping had one, and a decoded value has no token
set_permissions_for_participants(conv, cc, permissions, mode, response) ==
    Bind([mode |-> mode, permissions |-> PermissionsValue(permissions)],
         LAMBDA data :
    Bind(GetAttr(conv, "room"), LAMBDA room :
        [exc |-> "AttributeError", reqs |-> <<>>, ret |-> PyNone, cc |-> cc]))

ChatPath(chat, tail) == <<"chat">> \o Fmt(chat.token) \o tail

----------------------------------------------------------------------------
(* Rich objects: rich_objects.py *)

\* the classes and the object_type each declares; the base declares None
ObjectTypes ==
    [NextCloudTalkRichObject |-> PyNone,
     AddressBook |-> PyStr(<<"addressbook">>),
     AddressBookContact |-> PyStr(<<"addressbook-contact">>),
     Announcement |-> PyStr(<<"announcement">>),
     Calendar |-> PyStr(<<"calendar">>),
     CalendarEvent |-> PyStr(<<"calendar-event">>),
     Call |-> PyStr(<<"call">>),
     Circle |-> PyStr(<<"circle">>),
     DeckBoard |-> PyStr(<<"deck-board">>),
     DeckCard |-> PyStr(<<"deck-card">>),
     Email |-> PyStr(<<"email">>),
     File |-> PyStr(<<"file">>),
     Form |-> PyStr(<<"forms-form">>),
     GeoLocation |-> PyStr(<<"geo-location">>),
     TalkAttachment |-> PyStr(<<"talk-attachment">>),
     User |-> PyStr(<<"user">>),
     UserGroup |-> PyStr(<<"user-group">>)]

\* the class attributes a class declares beside object_type
ClassAttrs(class) ==
    CASE class = "Call" -> "call_type" :> PyStr(<<>>)
      [] class = "GeoLocation" -> ("latitude" :> PyNone @@ "longitude" :> PyNone)
      [] OTHER -> <<>>

\* lines 12-15: the keyword arguments first, then id and name
RichObjectInit(class, id, name, kwargs) ==
    [class |-> class, attrs |-> ("id" :> id @@ "name" :> name) @@ kwargs]

\* lines 98-104: the id is made of the coordinates
GeoLocation(name, latitude, longitude) ==
    RichObjectInit("GeoLocation",
                   PyStr(<<"geo:">> \o Fmt(latitude) \o <<",">> \o Fmt(longitude)),
                   name, "longitude" :> longitude @@ "latitude" :> latitude)

\* an attribute of the instance, else of its class
RichAttr(obj, name) ==
    IF name \in DOMAIN obj.attrs THEN obj.attrs[name] ELSE ClassAttrs(obj.class)[name]

\* every class answers with the mapping of the base
metadataBase(obj) ==
    <<<<"id", RichAttr(obj, "id")>>, <<"name", RichAttr(obj, "name")>>>>

\* the metadata property: the pairs of the mapping, in the order it is
\* written; Call (lines 53-59) and GeoLocation (lines 110-117) override
metadata(obj) ==
    CASE obj.class = "Call" ->
            <<<<"id", RichAttr(obj, "id")>>, <<"name", RichAttr(obj, "name")>>,
              <<"call-type", RichAttr(obj, "call_type")>>>>
      [] obj.class = "GeoLocation" ->
            <<<<"id", PyStr(<<"geo:">> \o Fmt(RichAttr(obj, "latitude")) \o <<",">>
                            \o Fmt(RichAttr(obj, "longitude")))>>,
              <<"name", RichAttr(obj, "name")>>,
              <<"latitude", RichAttr(obj, "latitude")>>,
              <<"longitude", RichAttr(obj, "longitude")>>>>
      [] OTHER ->
            <<<<"id", RichAttr(obj, "id")>>, <<"name", RichAttr(obj, "name")>>>>

\* the JSON text of a str or of None
JsonValue(v) ==
    IF v.type = "str" THEN <<"\"">> \o v.val \o <<"\"">> ELSE <<"null">>

\* the members of a JSON object, one "key": value after the other
RECURSIVE JsonMembers(_)
JsonMembers(pairs) ==
    IF pairs = <<>> THEN <<>>
    ELSE <<"\"", Head(pairs)[1], "\"", ": ">> \o JsonValue(Head(pairs)[2])
         \o (IF Len(pairs) > 1 THEN <<", ">> ELSE <<>>)
         \o JsonMembers(Tail(pairs))

\* json.dumps of a mapping: a str
JsonDumps(pairs) == PyStr(<<"{">> \o JsonMembers(pairs) \o <<"}">>)

\* an update that keeps the value a key already has
UpdateMissing(d, other) == PyDict(d.val @@ other.val)

\* dict.update(other)
Update(d, other) == PyDict(other.val @@ d.val)

\* response.get('response_headers', {})
ResponseHeaders(response) ==
    IF "response_headers" \in DOMAIN response.val
    THEN response.val["response_headers"] ELSE EmptyDict

\* lines 1228-1236: the Chat afterwards, and the outcome
clear_history(conv, cc, response, doc) ==
    Bind(GatedQuery(cc, "clear-history", ChatEndpoint, Data(<<>>),
                    ChatPath(conv.chat, <<>>), "DELETE",
                    <<"X-Chat-Last-Common-Read">>, response, doc),
         LAMBDA g :
            [out |-> g,
             headers |-> IF g.exc = "none"
                         THEN Update(conv.chat.headers, ResponseHeaders(g.ret))
                         ELSE conv.chat.headers])

\* lines 1401-1403, with the class attributes of lines 1398-1399
Message(data, slot) ==
    [class |-> ("id" :> PyStr(<<>>) @@ "message" :> PyStr(<<>>)),
     data |-> data,
     chat |-> slot]

\* [Message(x, self) for x in items]
RECURSIVE Messages(_, _)
Messages(items, slot) ==
    IF items = <<>> THEN <<>>
    ELSE <<Message(Head(items), slot)>> \o Messages(Tail(items), slot)

\* an attribute of the instance, else of the class
MessageAttr(msg, name) ==
    IF msg.data.type = "dict" /\ name \in DOMAIN msg.data.val
    THEN msg.data.val[name] ELSE msg.class[name]

\* lines 1075-1080 of receive_messages and 648-657 of participants: one or
\* many elements; the subscript raises KeyError when there is none
Elements(payload) ==
    Bind(Subscript(payload, "element"), LAMBDA element :
        CASE element.exc # "none" -> [exc |-> element.exc, items |-> <<>>]
          [] element.val.type = "dict" -> [exc |-> "none", items |-> <<element.val>>]
          [] element.val.type = "list" -> [exc |-> "none", items |-> element.val.val]
          [] OTHER -> [exc |-> "NextCloudTalkException", items |-> <<>>])

\* lines 1060-1080: the headers are stored before the payload is looked at
receive_messages(conv, slot, cc, look_into_future, last_known_message, response) ==
    Bind(PlainQuery(cc, ChatEndpoint,
                    [lookIntoFuture |-> IF look_into_future THEN 1 ELSE 0,
                     limit |-> 100,
                     lastKnownMessageId |-> last_known_message,
                     lastCommonReadId |-> 0,
                     timeout |-> 30,
                     setReadMaker |-> 1,
                     includeLastKnown |-> 0],
                    ChatPath(conv.chat, <<>>), "GET",
                    <<"X-Chat-Last-Given", "X-Chat-Last-Common-Read">>, response),
         LAMBDA q :
            IF q.exc # "none"
            THEN [out |-> q, headers |-> conv.chat.headers, obj |-> <<>>]
            ELSE Bind(Elements(q.ret), LAMBDA e :
                    [out |-> [q EXCEPT !.exc = e.exc],
                     headers |-> Update(conv.chat.headers, ResponseHeaders(q.ret)),
                     obj |-> Messages(e.items, slot)]))

\* a Participant that refers to no Conversation
ParticipantDetached(data, slot) == [data |-> data, room |-> 0]

\* lines 1254-1257
Participant(data, slot) == [data |-> data, room |-> slot]

\* [Participant(x, self) for x in items]
RECURSIVE Participants(_, _)
Participants(items, slot) ==
    IF items = <<>> THEN <<>>
    ELSE <<Participant(Head(items), slot)>> \o Participants(Tail(items), slot)

\* lines 644-657
participants(conv, slot, cc, response) ==
    Bind(PlainQuery(cc, ConversationEndpoint, [includeStatus |-> FALSE],
                    RoomPath(conv, <<"participants">>), "GET", <<>>, response),
         LAMBDA q :
            IF q.exc # "none"
            THEN [out |-> q, obj |-> <<>>]
            ELSE Bind(Elements(q.ret), LAMBDA e :
                    [out |-> [q EXCEPT !.exc = e.exc],
                     obj |-> Participants(e.items, slot)]))

\* the placeholder that stands for a rich object in a message body
RichObjectPlaceholder == PyStr(<<"{object}">>)

\* lines 1441-1447: the capability Message.delete tests for
DeleteCapability(msg) ==
    IF MessageAttr(msg, "message") = RichObjectPlaceholder
    THEN "rich-object-delete" ELSE "delete-messages"

\* lines 1441-1455: response['response_headers'] is there whenever the
\* query returns, since one header is captured
message_delete(msg, chat, cc, response, doc) ==
    Bind(GatedQuery(cc, DeleteCapability(msg), ChatEndpoint, Data(<<>>),
                    ChatPath(chat, Fmt(MessageAttr(msg, "id"))), "DELETE",
                    <<"X-Chat-Last-Common-Read">>, response, doc),
         LAMBDA g :
            [out |-> g,
             headers |-> IF g.exc = "none"
                         THEN Update(chat.headers, g.ret.val["response_headers"])
                         ELSE chat.headers])

\* a method that stores a cursor of its own with the captured headers
StoredWithCursor(chat, q) ==
    IF q.exc = "none"
    THEN Update(chat.headers,
                PyDict(("X-Chat-Last-Given" :> PyNone) @@ ResponseHeaders(q.ret).val))
    ELSE chat.headers

\* what a method of the Chat leaves in its header cache: the captured
\* headers of a call that returned are stored, lines 1102, 1202, 1482, 1506
Stored(chat, q) ==
    IF q.exc = "none" THEN Update(chat.headers, ResponseHeaders(q.ret))
    ELSE chat.headers

\* lines 1090-1103
send(conv, slot, cc, message, response) ==
    Bind(PlainQuery(cc, ChatEndpoint,
                    [message |-> message, replyTo |-> 0, displayName |-> PyNone,
                     referenceId |-> PyNone, silent |-> FALSE],
                    ChatPath(conv.chat, <<>>), "POST",
                    <<"X-Chat-Last-Common-Read">>, response),
         LAMBDA q :
            [out |-> q, headers |-> Stored(conv.chat, q),
             obj |-> IF q.exc = "none" THEN <<Message(q.ret, slot)>> ELSE <<>>])

FilesSharingUrl == "/ocs/v2.php/apps/files_sharing/api/v1/shares"

\* lines 1131-1143: the result of the query is dropped and no header stored
share_file(conv, cc, path, response) ==
    Bind(query(ChatEndpoint,
               [shareType |-> 10, shareWith |-> {conv.chat.token}, path |-> path,
                reference_id |-> PyNone,
                talkMetaData |-> JsonDumps(<<<<"messageType", PyStr(<<"comment">>)>>>>)],
               <<>>, "POST", FilesSharingUrl, <<>>, response),
         LAMBDA q :
            [out |-> [exc |-> q.exc, reqs |-> q.reqs, ret |-> PyNone, cc |-> cc],
             headers |-> conv.chat.headers])

\* lines 1190-1203: no capability is tested
send_rich_object(conv, cc, rich_object, response) ==
    Bind(PlainQuery(cc, ChatEndpoint,
                    [objectType |-> ObjectTypes[rich_object.class],
                     objectId |-> RichAttr(rich_object, "id"),
                     metaData |-> JsonDumps(metadata(rich_object)),
                     actorDisplayName |-> PyStr(<<"Guest">>),
                     referenceId |-> PyNone],
                    ChatPath(conv.chat, <<"share">>), "POST",
                    <<"X-Chat-Last-Common-Read">>, response),
         LAMBDA q : [out |-> q, headers |-> Stored(conv.chat, q)])

\* chats.py lines 14-16: the Chat of chats.py has a token and an api, and no
\* header cache
chats_Chat(token) == [token |-> token]

\* chats.py lines 25-47: what query gives is handed back as it is; nothing
\* is stored on the Chat
chats_receive_messages(chat, cc, look_into_future, last_known_message, response) ==
    Bind(PlainQuery(cc, ChatEndpoint,
                    [lookIntoFuture |-> IF look_into_future THEN 1 ELSE 0,
                     limit |-> 100,
                     lastKnownMessageId |-> last_known_message,
                     lastCommonReadId |-> 0,
                     timeout |-> 30,
                     setReadMaker |-> 1,
                     includeLastKnown |-> 0],
                    ChatPath(chat, <<>>), "GET",
                    <<"X-Chat-Last-Given", "X-Chat-Last-Common-Read">>, response),
         LAMBDA q : [out |-> q, chat |-> chat])

\* chats.py lines 118-128: the metadata property is called as a method; the
\* mapping it gives is not callable, so building the parameters raises
chats_send_rich_object(conv, cc, rich_object, response) ==
    Bind(metadata(rich_object), LAMBDA mapping :
        [exc |-> "TypeError", reqs |-> <<>>, ret |-> PyNone, cc |-> cc])

\* lines 1476-1483: no capability is tested
mark_read(msg, chat, cc, response) ==
    Bind(PlainQuery(cc, ChatEndpoint, [lastReadMessage |-> {MessageAttr(msg, "id")}],
                    ChatPath(chat, <<"read">>), "POST",
                    <<"X-Chat-Last-Common-Read">>, response),
         LAMBDA q : [out |-> q, headers |-> Stored(chat, q)])

\* lines 1501-1507: no capability is tested
mark_unread(msg, chat, cc, response) ==
    Bind(PlainQuery(cc, ChatEndpoint, <<>>, ChatPath(chat, <<"read">>), "DELETE",
                    <<"X-Chat-Last-Common-Read">>, response),
         LAMBDA q : [out |-> q, headers |-> Stored(chat, q)])

\* the raw gateway, called on nct.conversation_api
GatewayMethods == {"GET", "POST", "PUT", "DELETE"}
GatewayUrls == {"", "https://cloud/ocs/v2.php/apps/files_sharing/api/v1"}
GatewayCaptures ==
    {<<>>, <<"X-Chat-Last-Common-Read">>,
     <<"X-Chat-Last-Given", "X-Chat-Last-Common-Read">>}
GatewayHeaders ==
    {NoHeaders, "X-Chat-Last-Common-Read" :> "3",
     "X-Chat-Last-Given" :> "5" @@ "X-Chat-Last-Common-Read" :> "3"}

\* every statuscode the mapping names, and some it does not
StatusCodes == {"400", "401", "403", "404", "405", "409", "412", "413", "500"}

\* decoded bodies that are no complete envelope
BrokenContents ==
    {PyDict("html" :> PyStr(<<"text">>)),
     PyDict("ocs" :> PyNone),
     PyDict("ocs" :> PyDict("meta" :> PyDict("status" :> PyStr(<<"ok">>))))}

GatewayResponses ==
    {Response(FALSE, Envelope(c, PyNone), NoHeaders) : c \in StatusCodes}
    \cup {Response(ok, c, NoHeaders) : ok \in BOOLEAN, c \in BrokenContents}
    \cup {Success(d, h) : d \in {PyNone, Room(1), PyStr(<<"text">>)},
                          h \in GatewayHeaders}

api_query ==
    \E method \in GatewayMethods, url \in GatewayUrls,
       include_headers \in GatewayCaptures, response \in GatewayResponses :
        LET call(cc) ==
                Bind(query(ConversationEndpoint, [key |-> "value"], <<"room">>,
                           method, url, include_headers, response),
                     LAMBDA q : [exc |-> q.exc, reqs |-> q.reqs,
                                 obj |-> IF q.exc = "none" THEN <<q.ret>> ELSE <<>>])
        IN ThroughApi("query",
                      [method |-> method, url |-> url,
                       include_headers |-> include_headers],
                      response, call, FALSE)

\* a method of the Conversation in a slot that leaves the object as it was
OnConversation(name, slot, args, response, r) ==
    /\ SetCache(r.cc)
    /\ lastOp' = Op(name, [slot |-> slot, args |-> args],
                    IF r.reqs = <<>> THEN <<>> ELSE <<response>>,
                    r.exc, <<>>, r.reqs, IF r.exc = "none" THEN <<r.ret>> ELSE <<>>)
    /\ UNCHANGED <<server, conversation_api, convs, readReturned, deleted>>

\* a method that may store response headers on the Chat of the Conversation
OnChat(name, slot, args, response, r, headers, ret) ==
    /\ SetCache(r.cc)
    /\ convs' = [convs EXCEPT ![slot].chat.headers = headers]
    /\ lastOp' = Op(name,
                    [slot |-> slot, args |-> args,
                     before |-> convs[slot].chat.headers],
                    IF r.reqs = <<>> THEN <<>> ELSE <<response>>,
                    r.exc, <<>>, r.reqs, ret)
    /\ UNCHANGED <<server, conversation_api, readReturned, deleted>>

Slots == DOMAIN convs

conversation_rename ==
    \E slot \in Slots, response \in RoomResponses :
        OnConversation("rename", slot, <<"name">>, response,
            rename(convs[slot], Cache, "name", response))

\* the service deletes the room when it answers with a successful status
conversation_delete ==
    \E slot \in Slots, response \in RoomResponses :
    \E r \in {delete(convs[slot], Cache, response)} :
        /\ SetCache(r.cc)
        /\ deleted' = IF r.exc = "none"
                      THEN deleted \cup {convs[slot].attrs["token"]}
                      ELSE deleted
        /\ lastOp' = Op("delete", [slot |-> slot, args |-> <<>>,
                                   before |-> convs[slot]],
                        <<response>>, r.exc, <<>>, r.reqs,
                        IF r.exc = "none" THEN <<r.ret>> ELSE <<>>)
        /\ UNCHANGED <<server, conversation_api, convs, readReturned>>

conversation_set_description ==
    \E slot \in Slots, response \in RoomResponses :
        OnConversation("set_description", slot, <<"new">>, response,
            set_description(convs[slot], Cache, "new", response, server))

conversation_read_only ==
    \E slot \in Slots, response \in RoomResponses :
        OnConversation("read_only", slot, <<1>>, response,
            read_only(convs[slot], Cache, 1, response, server))

conversation_add_to_favorites ==
    \E slot \in Slots, response \in RoomResponses :
        OnConversation("add_to_favorites", slot, <<>>, response,
            add_to_favorites(convs[slot], Cache, response, server))

conversation_remove_from_favorites ==
    \E slot \in Slots, response \in RoomResponses :
        OnConversation("remove_from_favorites", slot, <<>>, response,
            remove_from_favorites(convs[slot], Cache, response, server))

LevelNames == {"always", "loud"}
ScopeNames == {"users", "nobody"}

conversation_set_call_notification_level ==
    \E slot \in Slots, level \in LevelNames, response \in RoomResponses :
        OnConversation("set_call_notification_level", slot, <<level>>, response,
            set_call_notification_level(convs[slot], Cache, level, response, server))

conversation_change_listing_scope ==
    \E slot \in Slots, scope \in ScopeNames, response \in RoomResponses :
        OnConversation("change_listing_scope", slot, <<scope>>, response,
            change_listing_scope(convs[slot], Cache, scope, response, server))

\* what the service answers a chat call with
ChatHeaders ==
    {NoHeaders, "X-Chat-Last-Given" :> "7"}
    \cup {"X-Chat-Last-Given" :> g @@ "X-Chat-Last-Common-Read" :> "3" :
            g \in {"5", "7"}}

MessageBodies == <<"{object}", "hello">>

ChatMessage(i) ==
    PyDict("id" :> PyStr(<<"10">>)
           @@ "message" :> PyStr(<<MessageBodies[((i - 1) % Len(MessageBodies)) + 1]>>))

ElementData(items) ==
    {PyNone, PyDict("element" :> PyNone), PyDict("element" :> PyStr(<<"text">>))}
    \cup {PyDict("element" :> items[i]) : i \in 1..2}
    \cup {PyDict("element" :> PyList(SubSeq(items, 1, n))) : n \in 2..(2 + MaxExtra)}

\* the first n messages of the chat
RECURSIVE ChatMessages(_)
ChatMessages(n) == IF n = 0 THEN <<>> ELSE ChatMessages(n - 1) \o <<ChatMessage(n)>>

ChatResponses ==
    Failures \cup {Success(d, h) : d \in ElementData(ChatMessages(2 + MaxExtra)),
                                  h \in ChatHeaders}

Attendee(i) == PyDict("attendeeId" :> PyStr(<<"7">>) @@ "actorId" :> PyStr(<<"u">>))

\* what the service answers a call that changes the chat with
ChatChangeResponses ==
    Failures \cup {Success(ChatMessage(2), h) : h \in GatewayHeaders}

RECURSIVE Attendees(_)
Attendees(n) == IF n = 0 THEN <<>> ELSE Attendees(n - 1) \o <<Attendee(n)>>

ParticipantResponses ==
    Failures \cup {Success(d, NoHeaders) : d \in ElementData(Attendees(2 + MaxExtra))}

conversation_clear_history ==
    \E slot \in Slots, response \in ChatChangeResponses :
        \E r \in {clear_history(convs[slot], Cache, response, server)} :
           OnChat("clear_history", slot, <<>>, response, r.out, r.headers,
                  IF r.out.exc = "none" THEN <<r.out.ret>> ELSE <<>>)

conversation_receive_messages ==
    \E slot \in Slots, response \in ChatResponses :
        \E r \in {receive_messages(convs[slot], slot, Cache, FALSE, 0, response)} :
           OnChat("receive_messages", slot, <<>>, response, r.out, r.headers,
                  IF r.out.exc = "none" THEN r.obj ELSE <<>>)

conversation_participants ==
    \E slot \in Slots, response \in ParticipantResponses :
        \E r \in {participants(convs[slot], slot, Cache, response)} :
           OnChat("participants", slot, [previous |-> lastOp.op], response, r.out,
                  convs[slot].chat.headers,
                  IF r.out.exc = "none" THEN r.obj ELSE <<>>)

\* a method of a Message the last receive_messages call returned
message_delete_call ==
    /\ lastOp.op = "receive_messages"
    /\ \E i \in DOMAIN lastOp.ret, response \in ChatChangeResponses :
        \E msg \in {lastOp.ret[i]} :
        \E r \in {message_delete(msg, convs[msg.chat].chat, Cache, response, server)} :
           OnChat("message_delete", msg.chat, <<msg>>, response, r.out, r.headers,
                  IF r.out.exc = "none" THEN <<r.out.ret>> ELSE <<>>)

NextCache ==
    \/ read_capabilities
    \/ read_config
    \/ read_server_version

NextListing ==
    \/ conversation_list
    \/ client_open_conversation_list
    \/ conversation_create
    \/ conversation_get

conversation_set_notification_level ==
    \E slot \in Slots, level \in LevelNames, response \in RoomResponses :
        OnConversation("set_notification_level", slot, <<level>>, response,
            set_notification_level(convs[slot], Cache, level, response))

conversation_invite ==
    \E slot \in Slots, response \in RoomResponses :
        OnConversation("invite", slot, <<"bob", "users">>, response,
            invite(convs[slot], Cache, "bob", "users", response))

PermissionSets == {{"start_call"}, {"custom", "join_call"}}

conversation_set_permissions_for_participants ==
    \E slot \in Slots, permissions \in PermissionSets, response \in RoomResponses :
        OnConversation("set_permissions_for_participants", slot,
            <<permissions, "add">>, response,
            set_permissions_for_participants(convs[slot], Cache, permissions, "add",
                                             response))

\* the rich objects the caller makes: one of each class, a Call of a given
\* type, and places
RichObjects ==
    {RichObjectInit(class, PyStr(<<"7">>), PyStr(<<"n">>), <<>>) :
        class \in DOMAIN ObjectTypes \ {"GeoLocation"}}
    \cup {RichObjectInit("Call", PyStr(<<"7">>), PyStr(<<"n">>),
                         "call_type" :> PyStr(<<"group">>))}
    \cup {GeoLocation(PyStr(<<"Spot">>), PyStr(<<latitude>>), PyStr(<<"4.56">>)) :
            latitude \in {"1.23", "0"}}

conversation_send ==
    \E slot \in Slots, response \in ChatChangeResponses :
        \E r \in {send(convs[slot], slot, Cache, "hello", response)} :
           OnChat("send", slot, <<"hello">>, response, r.out, r.headers, r.obj)

conversation_share_file ==
    \E slot \in Slots, response \in ChatChangeResponses :
        \E r \in {share_file(convs[slot], Cache, "a.txt", response)} :
           OnChat("share_file", slot, <<"a.txt">>, response, r.out, r.headers, <<>>)

conversation_send_rich_object ==
    \E slot \in Slots, rich_object \in RichObjects, response \in ChatChangeResponses :
        \E r \in {send_rich_object(convs[slot], Cache, rich_object, response)} :
           OnChat("send_rich_object", slot, <<rich_object>>, response, r.out,
                  r.headers, IF r.out.exc = "none" THEN <<r.out.ret>> ELSE <<>>)

\* receive_messages on a Chat of chats.py made for the token of the
\* Conversation; the argument recorded is the Chat as the call leaves it
conversation_chats_receive_messages ==
    \E slot \in Slots, response \in ChatResponses :
        \E r \in {chats_receive_messages(chats_Chat(convs[slot].chat.token),
                                         Cache, FALSE, 0, response)} :
           OnConversation("chats_receive_messages", slot, <<r.chat>>, response,
                          r.out)

\* the same call on a Chat of chats.py made for the token of the Conversation
conversation_chats_send_rich_object ==
    \E slot \in Slots, rich_object \in RichObjects, response \in ChatChangeResponses :
        OnConversation("chats_send_rich_object", slot, <<rich_object>>, response,
            chats_send_rich_object(convs[slot], Cache, rich_object, response))

\* the read marker of a Message the last receive_messages call returned
message_mark_read_call ==
    /\ lastOp.op = "receive_messages"
    /\ \E i \in DOMAIN lastOp.ret, response \in ChatChangeResponses :
        \E msg \in {lastOp.ret[i]} :
        \E r \in {mark_read(msg, convs[msg.chat].chat, Cache, response)} :
           OnChat("mark_read", msg.chat, <<msg>>, response, r.out, r.headers,
                  IF r.out.exc = "none" THEN <<r.out.ret>> ELSE <<>>)

message_mark_unread_call ==
    /\ lastOp.op = "receive_messages"
    /\ \E i \in DOMAIN lastOp.ret, response \in ChatChangeResponses :
        \E msg \in {lastOp.ret[i]} :
        \E r \in {mark_unread(msg, convs[msg.chat].chat, Cache, response)} :
           OnChat("mark_unread", msg.chat, <<msg>>, response, r.out, r.headers,
                  IF r.out.exc = "none" THEN <<r.out.ret>> ELSE <<>>)

\* the methods of a Conversation that test for no feature
NextUngated ==
    \/ conversation_set_notification_level
    \/ conversation_invite
    \/ conversation_set_permissions_for_participants

\* the methods that post to the chat
NextShare ==
    \/ conversation_send
    \/ conversation_share_file
    \/ conversation_send_rich_object
    \/ conversation_chats_send_rich_object

\* the methods that move the read marker
NextMarker ==
    \/ message_mark_read_call
    \/ message_mark_unread_call

\* the methods of a Conversation that send their call with no test
NextLifecycle ==
    \/ conversation_rename
    \/ conversation_delete

\* the methods that test for a feature of their own before they call
NextGated ==
    \/ conversation_set_description
    \/ conversation_read_only
    \/ conversation_add_to_favorites
    \/ conversation_remove_from_favorites
    \/ conversation_set_call_notification_level
    \/ conversation_change_listing_scope
    \/ conversation_clear_history

\* the methods that turn a payload into Participant and Message objects, and
\* the methods of those
NextChat ==
    \/ conversation_participants
    \/ conversation_receive_messages
    \/ message_delete_call
    \/ conversation_chats_receive_messages

Next ==
    \/ NextCache \/ NextListing \/ api_query \/ NextLifecycle \/ NextGated
    \/ NextChat \/ NextUngated \/ NextShare \/ NextMarker

Spec == Init /\ [][Next]_vars

\* the cache accessors alone, against every discovery document
SpecCache == Init /\ [][NextCache]_vars

\* the gateway alone, on a client that can or cannot build its API object
GatewayDocs ==
    {DiscoveryDoc(f, "none") : f \in ListsLacking({"conversation-v4"})}
    \cup {DiscoveryDoc(FullList, "noSpreed")}

SpecGateway == InitWith(GatewayDocs) /\ [][api_query]_vars

\* the calls that build Conversation objects
SpecListing ==
    InitWith(DocsLacking({"conversation-v4", "chat-v2"})) /\ [][NextListing]_vars

GatedFeatures ==
    {"room-description", "read-only-rooms", "favorites", "notification-calls",
     "listable-rooms", "clear-history"}

\* the gated methods of a Conversation got from the service
SpecGated ==
    InitWith(DocsLacking(GatedFeatures)) /\ [][conversation_get \/ NextGated]_vars

\* a Conversation got from the service, renamed, described and deleted
SpecLifecycle ==
    InitWith(DocsLacking({"room-description"}))
    /\ [][conversation_get \/ NextLifecycle \/ conversation_set_description]_vars

\* every method of a Conversation got from the service, of its Chat and of
\* the Messages of it
SpecObjects ==
    InitWith({DiscoveryDoc(f, "none") : f \in ListsLacking({"clear-history"})})
    /\ [][conversation_get \/ NextLifecycle \/ NextGated \/ NextChat]_vars

\* a service that advertises every feature
FullDoc == DiscoveryDoc(FullList, "none")

\* rich objects shared to the chat of a Conversation got from the service
SpecShare == InitWith({FullDoc}) /\ [][conversation_get \/ NextShare]_vars

\* the invitations, permissions and notification level of a Conversation
SpecRoom ==
    InitWith({FullDoc})
    /\ [][conversation_get \/ conversation_participants \/ NextUngated]_vars

DocumentedFeatures ==
    {"notification-levels", "rich-object-sharing", "chat-read-marker", "chat-unread"}

\* the methods whose documentation names a feature they require
SpecDocumented ==
    InitWith({DiscoveryDoc(f, "none") : f \in ListsLacking(DocumentedFeatures)})
    /\ [][\/ conversation_get
          \/ conversation_set_notification_level
          \/ conversation_send_rich_object
          \/ conversation_receive_messages
          \/ NextMarker]_vars

\* every method that stores headers on the Chat
SpecCursor ==
    InitWith({FullDoc})
    /\ [][\/ conversation_get
          \/ conversation_receive_messages
          \/ conversation_send
          \/ conversation_share_file
          \/ conversation_send_rich_object
          \/ conversation_clear_history
          \/ message_delete_call
          \/ NextMarker]_vars

ChatFeatures == {"delete-messages", "rich-object-delete"}

\* the participants and messages of a Conversation got from the service
SpecChat ==
    InitWith(DocsLacking(ChatFeatures)) /\ [][conversation_get \/ NextChat]_vars

----------------------------------------------------------------------------
(* The error kind of a failure status *)

\* the answer to the last operation, when it sent a request and got one
Answered == lastOp.resp # <<>>

\* the statuscode of the envelope of the last answer, when it has one
AnswerCode == Walk(lastOp.resp[1].content, <<"ocs", "meta", "statuscode">>)

\* C1: whenever query is answered with a non-successful status whose
\* envelope carries a statuscode, it raises the kind the table gives that
\* code (400 BadRequest, 401 Unauthorized, 403 Forbidden, 404 NotFound,
\* 409 Conflict, 412 PreconditionFailed), the generic NextCloudTalkException
\* for every other code, and returns no payload
C1_StatusMapsToKind ==
    (/\ lastOp.op = "query"
     /\ Answered
     /\ ~ lastOp.resp[1].ok
     /\ AnswerCode.exc = "none")
    => /\ lastOp.ret = <<>>
       /\ \A code \in StatusCodes :
            AnswerCode.val = PyStr(<<code>>) =>
                lastOp.exc =
                    CASE code = "400" -> "NextCloudTalkBadRequest"
                      [] code = "401" -> "NextCloudTalkUnauthorized"
                      [] code = "403" -> "NextCloudTalkForbidden"
                      [] code = "404" -> "NextCloudTalkNotFound"
                      [] code = "409" -> "NextCloudTalkConflict"
                      [] code = "412" -> "NextCloudTalkPreconditionFailed"
                      [] OTHER -> "NextCloudTalkException"

\* a query answered with a failure status and statuscode 409 has raised
\* Conflict
C1_Witness ==
    /\ lastOp.op = "query"
    /\ Answered
    /\ ~ lastOp.resp[1].ok
    /\ AnswerCode.val = PyStr(<<"409">>)
    /\ lastOp.exc = "NextCloudTalkConflict"

----------------------------------------------------------------------------
(* The capability cache *)

CacheFields == {"capabilities", "config", "server_version"}

\* C2: on one client the discovery endpoint is asked once: the read that
\* first returns leaves all three values populated, and a read made after
\* some read has returned sends no request and returns the cached value
C2_PopulatedOnce ==
    lastOp.op \in CacheFields =>
        /\ lastOp.exc = "none" =>
                \A field \in CacheFields : Truthy(Cache[field])
        /\ lastOp.args.before =>
                /\ lastOp.reqs = <<>>
                /\ lastOp.exc = "none"
                /\ lastOp.ret = <<Cache[lastOp.op]>>

\* the discovery document lacks one of the fields the cache reads
LacksField ==
    \E path \in {FeaturesPath, ConfigPath, VersionPath} :
        Walk(server, path).exc # "none"

\* C8: on a service whose discovery document lacks one of the nested
\* fields capabilities/spreed/features/element, capabilities/spreed/config
\* or version/string, a read of capabilities, config or server_version
\* raises NextCloudTalkException and returns nothing
C8_MissingFieldIsStructuralError ==
    (lastOp.op \in CacheFields /\ LacksField)
    => lastOp.exc = "NextCloudTalkException" /\ lastOp.ret = <<>>

----------------------------------------------------------------------------
(* Capability gating *)

\* the service advertises the feature: its name is one of the features of
\* the discovery document, or the only one
Advertises(feature) ==
    Bind(Walk(server, FeaturesPath), LAMBDA f :
        /\ f.exc = "none"
        /\ \/ f.val.type = "list" /\ \E i \in 1..Len(f.val.val) :
                                        f.val.val[i] = PyStr(<<feature>>)
           \/ f.val.type = "str" /\ f.val.val = <<feature>>)

\* the feature each gated method requires
GateOf ==
    [set_description |-> "room-description",
     read_only |-> "read-only-rooms",
     add_to_favorites |-> "favorites",
     remove_from_favorites |-> "favorites",
     set_call_notification_level |-> "notification-calls",
     change_listing_scope |-> "listable-rooms",
     clear_history |-> "clear-history"]

\* C3: a gated method called on a service that does not advertise the
\* feature it requires raises NotCapable and sends no request, on the first
\* call and on every later one
C3_GatedFailsLocally ==
    (lastOp.op \in DOMAIN GateOf /\ ~ Advertises(GateOf[lastOp.op]))
    => /\ lastOp.exc = "NextCloudTalkNotCapable"
       /\ lastOp.reqs = <<>>
       /\ lastOp.setup = <<>>

\* the feature the claim has Message.delete require for a message
DeleteGate(msg) ==
    IF MessageAttr(msg, "message") = PyStr(<<"{object}">>)
    THEN "rich-object-delete" ELSE "delete-messages"

\* C4: Message.delete requires rich-object-delete when the body of the
\* message is the placeholder '{object}' and delete-messages otherwise;
\* without the required feature it raises NotCapable and sends no request,
\* with it it sends exactly one DELETE to /chat/{token}/{messageId}
C4_DeleteByBody ==
    lastOp.op = "message_delete" =>
        Bind(lastOp.args.args[1], LAMBDA msg :
            IF Advertises(DeleteGate(msg))
            THEN /\ Len(lastOp.reqs) = 1
                 /\ lastOp.reqs[1].method = "DELETE"
                 /\ lastOp.reqs[1].url = ChatEndpoint
                 /\ lastOp.reqs[1].sub =
                        <<"chat">> \o convs[msg.chat].chat.token.val
                                  \o MessageAttr(msg, "id").val
            ELSE /\ lastOp.exc = "NextCloudTalkNotCapable"
                 /\ lastOp.reqs = <<>>)

----------------------------------------------------------------------------
(* The header cache of a Chat *)

CursorHeaders == {"X-Chat-Last-Given", "X-Chat-Last-Common-Read"}

\* the part of C5 about the Chat of api.py: after a receive_messages call
\* that returned, the header cache of the Chat holds, for X-Chat-Last-Given and for X-Chat-Last-Common-Read, the
\* value of that header in the response just received (None when the
\* response left it out), whatever earlier calls had stored
C5_CacheHoldsLatestHeaders ==
    (lastOp.op = "receive_messages" /\ lastOp.exc = "none") =>
        \A h \in CursorHeaders :
            /\ h \in DOMAIN convs[lastOp.args.slot].chat.headers.val
            /\ convs[lastOp.args.slot].chat.headers.val[h] =
                    IF h \in DOMAIN lastOp.resp[1].headers
                    THEN PyStr(<<lastOp.resp[1].headers[h]>>)
                    ELSE PyNone

\* the values a Chat object holds for the cursor headers are those of the
\* response
HoldsHeaders(chat, response) ==
    /\ "headers" \in DOMAIN chat
    /\ \A h \in CursorHeaders :
        /\ h \in DOMAIN chat.headers.val
        /\ chat.headers.val[h] = IF h \in DOMAIN response.headers
                                 THEN PyStr(<<response.headers[h]>>)
                                 ELSE PyNone

\* C5: after a message fetch that returned, on the Chat of api.py or on the
\* Chat of chats.py, the Chat holds for X-Chat-Last-Given and for
\* X-Chat-Last-Common-Read the value of that header in the response just
\* received
C5_EveryChatCachesHeaders ==
    /\ (lastOp.op = "receive_messages" /\ lastOp.exc = "none") =>
            HoldsHeaders(convs[lastOp.args.slot].chat, lastOp.resp[1])
    /\ (lastOp.op = "chats_receive_messages" /\ lastOp.exc = "none") =>
            HoldsHeaders(lastOp.args.args[1], lastOp.resp[1])

\* a fetch that returned cursor 7 on a Chat whose cache held cursor 5 from
\* an earlier fetch
C5_Witness ==
    /\ lastOp.op = "receive_messages"
    /\ lastOp.exc = "none"
    /\ "X-Chat-Last-Given" \in DOMAIN lastOp.args.before.val
    /\ lastOp.args.before.val["X-Chat-Last-Given"] = PyStr(<<"5">>)
    /\ "X-Chat-Last-Given" \in DOMAIN lastOp.resp[1].headers
    /\ lastOp.resp[1].headers["X-Chat-Last-Given"] = "7"
    /\ convs[lastOp.args.slot].chat.headers.val["X-Chat-Last-Given"] = PyStr(<<"7">>)

----------------------------------------------------------------------------
(* Zero, one or many elements *)

\* the data of the envelope of the last answer
AnswerData == Walk(lastOp.resp[1].content, <<"ocs", "data">>).val

\* the last operation was answered with a successful status
Succeeded == Answered /\ lastOp.resp[1].ok

\* the element of the data of the last answer is of this type
ElementIs(type) ==
    /\ AnswerData.type = "dict"
    /\ "element" \in DOMAIN AnswerData.val
    /\ AnswerData.val["element"].type = type

\* what the claims say a call returns for the last answer: as many objects
\* as there are elements, the unexpected-shape error for an element that is
\* neither a mapping nor a list
Normalized ==
    CASE ~ Truthy(AnswerData) -> lastOp.exc = "none" /\ lastOp.ret = <<>>
      [] ElementIs("dict") -> lastOp.exc = "none" /\ Len(lastOp.ret) = 1
      [] ElementIs("list") ->
            /\ lastOp.exc = "none"
            /\ Len(lastOp.ret) = Len(AnswerData.val["element"].val)
      [] ElementIs("str") -> lastOp.exc = "NextCloudTalkException"
      [] OTHER -> TRUE

\* C6: list and open_conversation_list, answered with a successful status,
\* return as many Conversation objects as the response has rooms: none for
\* an empty payload, one for a lone mapping, N for a list of N mappings;
\* another shape of element raises the library's unexpected-shape error
C6_ListingLength ==
    (lastOp.op \in {"conversation_list", "open_conversation_list"} /\ Succeeded)
    => Normalized

\* C7: the participants accessor and receive_messages, answered with a
\* successful status, return no object for a payload without element, one
\* for a lone mapping, N for a list of N mappings, and raise the
\* unexpected-shape error only for an element of another shape
C7_ElementsNormalized ==
    (lastOp.op \in {"participants", "receive_messages"} /\ Succeeded)
    => Normalized

----------------------------------------------------------------------------
(* Creating a conversation *)

\* C9: on a service that advertises conversation-v4, new(room_type='group',
\* room_name='Test') sends exactly one POST to /room whose body has
\* roomType 2 and roomName 'Test', and, answered with a room, returns a
\* Conversation whose token is the token of the response
C9_NewGroupPostsAndReturns ==
    (/\ lastOp.op = "conversation_create"
     /\ lastOp.args.room_type = "group"
     /\ Advertises("conversation-v4"))
    => /\ Len(lastOp.reqs) = 1
       /\ lastOp.reqs[1].method = "POST"
       /\ lastOp.reqs[1].url = ConversationEndpoint
       /\ lastOp.reqs[1].sub = <<"room">>
       /\ lastOp.reqs[1].query = <<>>
       /\ lastOp.reqs[1].body[1].roomType = 2
       /\ lastOp.reqs[1].body[1].roomName = "Test"
       /\ (Succeeded /\ Truthy(AnswerData)) =>
            /\ lastOp.exc = "none"
            /\ Len(lastOp.ret) = 1
            /\ lastOp.ret[1].attrs["token"] = AnswerData.val["token"]

----------------------------------------------------------------------------
(* Requests of one operation *)

\* every request the last operation sent through the session, those sent
\* while the client built its API object included
Sent == lastOp.setup \o lastOp.reqs

\* C11: every public operation sends at most one request through the
\* session per invocation, the first operation of a freshly constructed
\* client included
C11_AtMostOneRequest == Len(Sent) <= 1

\* C12: every request the library sends through the session, the
\* capability discovery fetch included, carries the header
\* OCS-APIRequest: true
C12_MarkerOnEveryRequest ==
    \A i \in DOMAIN Sent : <<"OCS-APIRequest", "true">> \in Sent[i].headers

----------------------------------------------------------------------------
(* The request and the payload of query *)

\* query has run: the client had or could build its API object
Queried == lastOp.op = "query" /\ conversation_api

\* C13: query sends its parameters in the query string and no body when the
\* method is GET, and in the body with no query string for POST, PUT and
\* DELETE; the target is url then sub when a url is given, the endpoint
\* then sub otherwise
C13_ParametersByMethod ==
    Queried =>
        /\ Len(lastOp.reqs) = 1
        /\ lastOp.reqs[1].method = lastOp.args.method
        /\ lastOp.reqs[1].sub = <<"room">>
        /\ lastOp.reqs[1].url =
                IF lastOp.args.url # "" THEN lastOp.args.url
                ELSE ConversationEndpoint
        /\ IF lastOp.args.method = "GET"
           THEN /\ lastOp.reqs[1].query = <<[key |-> "value"]>>
                /\ lastOp.reqs[1].body = <<>>
           ELSE /\ lastOp.reqs[1].query = <<>>
                /\ lastOp.reqs[1].body = <<[key |-> "value"]>>

\* a GET with a url override has put the parameters in the query string of
\* a request to that url
C13_Witness ==
    /\ Queried
    /\ lastOp.args.method = "GET"
    /\ lastOp.args.url # ""
    /\ lastOp.reqs[1].url = lastOp.args.url
    /\ lastOp.reqs[1].query = <<[key |-> "value"]>>
    /\ lastOp.reqs[1].body = <<>>

\* the headers a query was asked to capture
Captured == {lastOp.args.include_headers[i] :
                i \in DOMAIN lastOp.args.include_headers}

\* C14: a query that returns and was given headers to capture returns a
\* payload whose 'response_headers' has one entry for each of them and no
\* other, holding the value of the header in the response, or None when
\* the response left it out, also when the data of the response is empty;
\* given no header to capture it adds no 'response_headers'
C14_CapturedHeaders ==
    (Queried /\ lastOp.exc = "none") =>
        Bind(lastOp.ret[1], LAMBDA ret :
            IF Captured = {}
            THEN ret.type = "dict" => "response_headers" \notin DOMAIN ret.val
            ELSE /\ ret.type = "dict"
                 /\ "response_headers" \in DOMAIN ret.val
                 /\ ret.val["response_headers"].type = "dict"
                 /\ DOMAIN ret.val["response_headers"].val = Captured
                 /\ \A h \in Captured :
                        ret.val["response_headers"].val[h] =
                            IF h \in DOMAIN lastOp.resp[1].headers
                            THEN PyStr(<<lastOp.resp[1].headers[h]>>)
                            ELSE PyNone)

\* a query for two headers, answered with empty data and one of the two,
\* has returned the value of that one and None for the other
C14_Witness ==
    /\ Queried
    /\ lastOp.exc = "none"
    /\ Captured = {"X-Chat-Last-Given", "X-Chat-Last-Common-Read"}
    /\ ~ Truthy(AnswerData)
    /\ DOMAIN lastOp.resp[1].headers = {"X-Chat-Last-Common-Read"}
    /\ lastOp.ret[1].val["response_headers"].val["X-Chat-Last-Given"] = PyNone
    /\ lastOp.ret[1].val["response_headers"].val["X-Chat-Last-Common-Read"] =
            PyStr(<<"3">>)

\* C16: a query answered with a successful status and an envelope without
\* 'ocs', or without 'data' in it, raises NextCloudTalkException and
\* returns no payload
C16_MissingEnvelopeFieldRaises ==
    (/\ Queried
     /\ lastOp.resp[1].ok
     /\ Walk(lastOp.resp[1].content, <<"ocs", "data">>).exc = "KeyError")
    => /\ lastOp.exc = "NextCloudTalkException"
       /\ lastOp.ret = <<>>

\* C17: each call of query sends exactly one request whatever the outcome;
\* answered with a failure status it raises to its caller, sends nothing
\* more and returns nothing
C17_OneRequestPerQuery ==
    Queried =>
        /\ Len(lastOp.reqs) = 1
        /\ ~ lastOp.resp[1].ok => (lastOp.exc # "none" /\ lastOp.ret = <<>>)

\* a query answered with status 500 has sent one request and raised
C17_Witness ==
    /\ Queried
    /\ ~ lastOp.resp[1].ok
    /\ AnswerCode.val = PyStr(<<"500">>)
    /\ Len(lastOp.reqs) = 1
    /\ lastOp.exc = "NextCloudTalkException"

----------------------------------------------------------------------------
(* A call that fails *)

\* C15: when receive_messages raises, on a failure status or on a payload
\* of unexpected shape, the header cache of the Chat is what it was before
\* the call
C15_FailureLeavesCache ==
    (lastOp.op = "receive_messages" /\ lastOp.exc # "none") =>
        convs[lastOp.args.slot].chat.headers = lastOp.args.before

----------------------------------------------------------------------------
(* The participants of a Conversation *)

\* C18: every access of participants sends a fresh GET for the participants
\* of the room, whatever was fetched before, and every Participant it
\* returns refers back to the Conversation that was accessed
C18_ParticipantsFetchedEachTime ==
    lastOp.op = "participants" =>
        /\ Len(lastOp.reqs) = 1
        /\ lastOp.reqs[1].method = "GET"
        /\ lastOp.reqs[1].sub =
                RoomPath(convs[lastOp.args.slot], <<"participants">>)
        /\ \A i \in DOMAIN lastOp.ret : lastOp.ret[i].room = lastOp.args.slot

\* an access made right after another access has sent its own request and
\* returned two Participants of the Conversation
C18_Witness ==
    /\ lastOp.op = "participants"
    /\ lastOp.args.args.previous = "participants"
    /\ Len(lastOp.reqs) = 1
    /\ Len(lastOp.ret) = 2
    /\ lastOp.ret[1].room = lastOp.args.slot
    /\ lastOp.ret[2].room = lastOp.args.slot

----------------------------------------------------------------------------
(* A Conversation the service has deleted *)

\* the last operation was a method of a Conversation whose room the service
\* had deleted, or deletes with this call
OnDeleted ==
    /\ lastOp.op \in {"rename", "delete", "set_description"}
    /\ convs[lastOp.args.slot].attrs["token"] \in deleted

\* the capability test of the method of the last operation fails
GateFails ==
    /\ lastOp.op \in DOMAIN GateOf
    /\ ~ PyIn(GateOf[lastOp.op], capabilities).val

----------------------------------------------------------------------------
(* The Chat of a Conversation *)

\* the Conversation in the slot has the Chat of its own token
OwnsChat(slot) == convs[slot].chat.token = convs[slot].attrs["token"]

\* a step leaves the tokens of the Conversations the caller holds as they are
TokensKept ==
    \A slot \in DOMAIN convs :
        /\ convs'[slot].attrs["token"] = convs[slot].attrs["token"]
        /\ convs'[slot].chat.token = convs[slot].chat.token

\* C20: in every reachable state a Conversation has the one Chat made at
\* its construction, the token of that Chat is the token of the
\* Conversation, which is the token of the mapping it was built from, and
\* no operation changes either token
C20_OneChatSharingToken ==
    /\ [](/\ \A slot \in DOMAIN convs : OwnsChat(slot)
          /\ (lastOp.op = "conversation_get" /\ lastOp.exc = "none") =>
                /\ lastOp.ret[1].attrs["token"] = AnswerData.val["token"]
                /\ lastOp.ret[1].chat.token = AnswerData.val["token"])
    /\ [][TokensKept]_vars

\* a Conversation whose Chat has stored headers and whose room has been
\* deleted still has the Chat of its token
C20_Witness ==
    /\ convs # <<>>
    /\ convs[1].chat.headers # EmptyDict
    /\ convs[1].attrs["token"] \in deleted
    /\ OwnsChat(1)

----------------------------------------------------------------------------
(* Rich objects *)

\* the rich object the last operation was given
Shared == lastOp.args.args[1]

\* C21: sending a rich object sends one POST to /chat/{token}/share whose
\* body has the object_type of the object as objectType, its id as objectId
\* and the JSON text of its metadata as metaData, for every class of rich
\* object and for the Chat of api.py and the Chat of chats.py alike
C21_RichObjectPosted ==
    lastOp.op \in {"send_rich_object", "chats_send_rich_object"} =>
        /\ Len(lastOp.reqs) = 1
        /\ lastOp.reqs[1].method = "POST"
        /\ lastOp.reqs[1].url = ChatEndpoint
        /\ lastOp.reqs[1].sub =
                <<"chat">> \o convs[lastOp.args.slot].attrs["token"].val \o <<"share">>
        /\ lastOp.reqs[1].query = <<>>
        /\ lastOp.reqs[1].body[1].objectType = ObjectTypes[Shared.class]
        /\ lastOp.reqs[1].body[1].objectId = Shared.attrs["id"]
        /\ lastOp.reqs[1].body[1].metaData = JsonDumps(metadata(Shared))

\* the keys of a mapping given as pairs, and the position of one
PairKeys(pairs) == {pairs[i][1] : i \in DOMAIN pairs}
PairIndex(pairs, key) == (CHOOSE i \in DOMAIN pairs : pairs[i][1] = key)

\* the fields the claim gives the metadata of a class
FieldsOf(class) ==
    CASE class = "Call" -> {"id", "name", "call-type"}
      [] class = "GeoLocation" -> {"id", "name", "latitude", "longitude"}
      [] OTHER -> {"id", "name"}

\* C22: the metadata of a rich object has the fields of its class and no
\* other: id and name, with call-type for a Call, with latitude and
\* longitude for a GeoLocation, whose id is 'geo:<latitude>,<longitude>'
\* and is the id attribute of the object; latitude '1.23', longitude '4.56'
\* and name 'Spot' give the id 'geo:1.23,4.56'
C22_MetadataFields ==
    lastOp.op = "send_rich_object" =>
        Bind(metadata(Shared), LAMBDA m :
            /\ PairKeys(m) = FieldsOf(Shared.class)
            /\ Len(m) = Cardinality(FieldsOf(Shared.class))
            /\ m[PairIndex(m, "name")][2] = Shared.attrs["name"]
            /\ Shared.class # "GeoLocation" => m[PairIndex(m, "id")][2] = Shared.attrs["id"]
            /\ Shared.class = "GeoLocation" =>
                    /\ m[PairIndex(m, "latitude")][2] = Shared.attrs["latitude"]
                    /\ m[PairIndex(m, "longitude")][2] = Shared.attrs["longitude"]
                    /\ m[PairIndex(m, "id")][2] =
                            PyStr(<<"geo:">> \o Shared.attrs["latitude"].val \o <<",">>
                                  \o Shared.attrs["longitude"].val)
                    /\ Shared.attrs["id"] = m[PairIndex(m, "id")][2]
            /\ Shared = GeoLocation(PyStr(<<"Spot">>), PyStr(<<"1.23">>), PyStr(<<"4.56">>))
                    => m[PairIndex(m, "id")][2] = PyStr(<<"geo:", "1.23", ",", "4.56">>))

\* the place 'Spot' at 1.23, 4.56 has been shared with the id geo:1.23,4.56
\* in its metadata
C22_Witness ==
    /\ lastOp.op = "send_rich_object"
    /\ Shared.class = "GeoLocation"
    /\ Shared.attrs["latitude"] = PyStr(<<"1.23">>)
    /\ Shared.attrs["name"] = PyStr(<<"Spot">>)
    /\ lastOp.reqs[1].body[1].objectId = PyStr(<<"geo:", "1.23", ",", "4.56">>)
    /\ lastOp.reqs[1].body[1].metaData =
            JsonDumps(<<<<"id", PyStr(<<"geo:", "1.23", ",", "4.56">>)>>,
                        <<"name", PyStr(<<"Spot">>)>>,
                        <<"latitude", PyStr(<<"1.23">>)>>,
                        <<"longitude", PyStr(<<"4.56">>)>>>>)

----------------------------------------------------------------------------
(* Methods whose documentation names a feature *)

\* the feature the documentation of each method requires
DocumentedGate ==
    [set_notification_level |-> "notification-levels",
     send_rich_object |-> "rich-object-sharing",
     mark_read |-> "chat-read-marker",
     mark_unread |-> "chat-unread"]

\* C23: set_notification_level, send_rich_object, Message.mark_read and
\* Message.mark_unread, called on a service that does not advertise the
\* feature their documentation requires, raise NotCapable and send no
\* request
C23_DocumentedGateEnforced ==
    (lastOp.op \in DOMAIN DocumentedGate /\ ~ Advertises(DocumentedGate[lastOp.op]))
    => /\ lastOp.exc = "NextCloudTalkNotCapable"
       /\ lastOp.reqs = <<>>

----------------------------------------------------------------------------
(* The requests of the methods of a Conversation *)

\* the path /room/{token} then tail of the Conversation of the last operation
OwnRoomPath(tail) ==
    <<"room">> \o convs[lastOp.args.slot].attrs["token"].val \o tail

\* C24: invite(invitee, source) sends a POST to /room/{token}/participants
\* with newParticipant and source in the body, so never the request of the
\* participants listing, a GET on the same path
C24_InvitePosts ==
    lastOp.op = "invite" =>
        /\ Len(lastOp.reqs) = 1
        /\ lastOp.reqs[1].method = "POST"
        /\ lastOp.reqs[1].sub = OwnRoomPath(<<"participants">>)
        /\ lastOp.reqs[1].query = <<>>
        /\ lastOp.reqs[1].body = <<[newParticipant |-> "bob", source |-> "users"]>>

\* C25: on a service that advertises favorites, add_to_favorites sends a
\* POST and remove_from_favorites a DELETE to the same path
\* /room/{token}/favorite
C25_FavoritesSamePath ==
    (lastOp.op \in {"add_to_favorites", "remove_from_favorites"}
     /\ Advertises("favorites"))
    => /\ Len(lastOp.reqs) = 1
       /\ lastOp.reqs[1].method =
            IF lastOp.op = "add_to_favorites" THEN "POST" ELSE "DELETE"
       /\ lastOp.reqs[1].sub = OwnRoomPath(<<"favorite">>)

\* C26: set_permissions_for_participants(permissions, mode) sends exactly
\* one PUT to /room/{token}/attendees/permissions/all, with the token of
\* the Conversation, whose body holds mode and the integer value of the
\* permissions
C26_PermissionsPut ==
    lastOp.op = "set_permissions_for_participants" =>
        /\ Len(lastOp.reqs) = 1
        /\ lastOp.reqs[1].method = "PUT"
        /\ lastOp.reqs[1].sub = OwnRoomPath(<<"attendees", "permissions", "all">>)
        /\ lastOp.reqs[1].body =
                <<[mode |-> lastOp.args.args[2],
                   permissions |-> PermissionsValue(lastOp.args.args[1])]>>

\* C27: after set_description(d) returns, the description of the
\* Conversation object is d; after a call that raised, NotCapable or an
\* error of the service, it is what it was
C27_DescriptionFollowsCall ==
    lastOp.op = "set_description" =>
        convs[lastOp.args.slot].attrs["description"] =
            IF lastOp.exc = "none" THEN PyStr(<<lastOp.args.args[1]>>)
            ELSE PyStr(<<"old">>)

----------------------------------------------------------------------------
(* Exact capabilities, and a population that fails *)

\* C28: a capability test for a feature passes only on a service whose
\* features have an element equal to it, whatever the shape of the
\* discovery document, a single feature decoded as a lone str included:
\* the client has a ConversationAPI only if conversation-v4 is advertised,
\* and holds a Conversation, with its ChatAPI, only if chat-v2 is
C28_ExactFeatureMatch ==
    /\ conversation_api => Advertises("conversation-v4")
    /\ convs # <<>> => Advertises("chat-v2")

\* C29: when populating the cache raises, capabilities, config and
\* server_version are all what they were before the read
C29_PopulationAllOrNothing ==
    (lastOp.op \in CacheFields /\ lastOp.exc # "none") => Cache = lastOp.args.cache

----------------------------------------------------------------------------
(* The cursor of a Chat *)

\* the header cache of the Chat in a slot holds X-Chat-Last-Given
HasCursor(slot) == "X-Chat-Last-Given" \in DOMAIN convs[slot].chat.headers.val

\* the cursor the Chat in a slot holds, if any
CursorOf(slot) ==
    IF HasCursor(slot)
    THEN <<convs[slot].chat.headers.val["X-Chat-Last-Given"]>> ELSE <<>>

\* a step that is a receive_messages call on the slot whose query returned,
\* so that it stored its headers
StoresCursor(slot) ==
    /\ lastOp'.op = "receive_messages"
    /\ lastOp'.args.slot = slot
    /\ lastOp'.resp[1].ok

\* what a step does to the cursor of each Chat
CursorStep ==
    \A slot \in DOMAIN convs' :
        CASE slot \notin DOMAIN convs -> ~ HasCursor(slot)'
          [] StoresCursor(slot) -> HasCursor(slot)'
          [] OTHER -> CursorOf(slot)' = CursorOf(slot)

\* C30: receive_messages alone writes the cached X-Chat-Last-Given: send,
\* send_rich_object, clear_history, share_file, Message.delete, mark_read
\* and mark_unread leave it as it is, and a Chat, made without it, has it
\* exactly when a receive_messages call on it has stored its headers
C30_OnlyReceiveWritesCursor == [][CursorStep]_vars

\* a send on a Chat holding cursor 7 has stored the X-Chat-Last-Common-Read
\* of its response and left the cursor at 7
C30_Witness ==
    /\ lastOp.op = "send"
    /\ lastOp.exc = "none"
    /\ "X-Chat-Last-Given" \in DOMAIN lastOp.args.before.val
    /\ lastOp.args.before.val["X-Chat-Last-Given"] = PyStr(<<"7">>)
    /\ lastOp.args.before.val["X-Chat-Last-Common-Read"] = PyNone
    /\ convs[lastOp.args.slot].chat.headers.val["X-Chat-Last-Common-Read"] =
            PyStr(<<"3">>)
    /\ CursorOf(lastOp.args.slot) = <<PyStr(<<"7">>)>>

====
